---- MODULE Spec2Model ----
\* A model of the contact manager of src/Contact_Book.py: the in-memory
\* contact list, the backing file contacts.json, the backup directory and
\* the menu handlers that change them.  Text is modelled as sequences of
\* one-character strings so that strip(), lower(), re.sub(r'\D', ...) and
\* the phone formatting are computed as the code computes them.
EXTENDS Integers, Sequences, FiniteSets, TLC

VARIABLES contacts, file, backups, now, report, exported, phone_call, pager,
          running, tasks, todo_data, game

vars ==
  <<contacts, file, backups, now, report, exported, phone_call, pager, running,
    tasks, todo_data, game>>

\* ---------------------------------------------------------------- bounds
\* the longest contact list the handlers are run on
MaxContacts == 2
\* the last second of the wall clock in SpecBackups
MaxTimeB == 6
\* the last second of the wall clock in SpecRestore
MaxTimeR == 1
\* the most digits in an argument of validate_phone
MaxDigits == 16
\* the longest list view_contacts is run on
MaxTotal == 23
\* the last second of the wall clock in SpecDates
MaxTimeD == 1
\* the most tasks in the to-do list
MaxTasks == 3
\* the most rounds of rock-paper-scissors in a game
MaxRounds == 6

\* ------------------------------------------------------ program constants
KeepBackups == 5

\* ------------------------------------------------------------------ text
Min(a, b) == IF a <= b THEN a ELSE b

Digits == {"0", "1", "2", "3", "4", "5", "6", "7", "8", "9"}
LowerLetters == {"a", "b", "c", "e", "l", "n", "o", "s", "x", "y"}
UpperLetters == {"A", "B", "Y"}
Letters == LowerLetters \cup UpperLetters

\* str.lower() on one character, for the alphabet the model uses.
LowerChar(c) ==
  CASE c = "A" -> "a"
    [] c = "B" -> "b"
    [] c = "Y" -> "y"
    [] OTHER -> c

Lower(s) == [i \in 1..Len(s) |-> LowerChar(s[i])]

RECURSIVE LStrip(_)
LStrip(s) == IF s # <<>> /\ Head(s) = " " THEN LStrip(Tail(s)) ELSE s

RECURSIVE RStrip(_)
RStrip(s) ==
  IF s # <<>> /\ s[Len(s)] = " " THEN RStrip(SubSeq(s, 1, Len(s) - 1)) ELSE s

\* input() taken as typed, without strip().
StripNothing(s) == s

Strip(s) == RStrip(LStrip(s))

\* re.sub with the pattern [^0-9+]: a "+" counts as a digit.
IsDigitOrPlus(c) == c \in Digits \cup {"+"}

IsDigit(c) == c \in Digits

\* validate_phone that checks the length and returns the phone as typed.
validate_phone_as_typed(phone) ==
  LET digits == SelectSeq(phone, IsDigit)
      n == Len(digits)
  IN IF n < 10 \/ n > 15
       THEN [ok |-> FALSE, formatted |-> <<>>]
       ELSE [ok |-> TRUE, formatted |-> phone]

\* validate_phone with the ten digits run together after the area code.
validate_phone_unspaced(phone) ==
  LET digits == SelectSeq(phone, IsDigit)
      n == Len(digits)
  IN IF n < 10 \/ n > 15
       THEN [ok |-> FALSE, formatted |-> <<>>]
       ELSE IF n = 10
         THEN [ok |-> TRUE,
               formatted |-> <<"(">> \o SubSeq(digits, 1, 3) \o <<")">>
                             \o SubSeq(digits, 4, 6) \o <<"-">>
                             \o SubSeq(digits, 7, n)]
         ELSE [ok |-> TRUE,
               formatted |-> <<"+">> \o SubSeq(digits, 1, n - 10) \o <<"-">>
                             \o SubSeq(digits, n - 9, n - 7) \o <<"-">>
                             \o SubSeq(digits, n - 6, n - 4) \o <<"-">>
                             \o SubSeq(digits, n - 3, n)]

\* validate_phone with a country code of one digit whatever the length.
validate_phone_short_prefix(phone) ==
  LET digits == SelectSeq(phone, IsDigit)
      n == Len(digits)
  IN IF n < 10 \/ n > 15
       THEN [ok |-> FALSE, formatted |-> <<>>]
       ELSE IF n = 10
         THEN [ok |-> TRUE,
               formatted |-> <<"(">> \o SubSeq(digits, 1, 3) \o <<")", " ">>
                             \o SubSeq(digits, 4, 6) \o <<"-">>
                             \o SubSeq(digits, 7, n)]
         ELSE [ok |-> TRUE,
               formatted |-> <<"+">> \o SubSeq(digits, 1, 1) \o <<"-">>
                             \o SubSeq(digits, n - 9, n - 7) \o <<"-">>
                             \o SubSeq(digits, n - 6, n - 4) \o <<"-">>
                             \o SubSeq(digits, n - 3, n)]

\* validate_phone: (formatted, error); error is modelled by ok = FALSE and
\* formatted = <<>> (None).
validate_phone(phone) ==
  LET digits == SelectSeq(phone, IsDigit)
      n == Len(digits)
  IN IF n < 10 \/ n > 15
       THEN [ok |-> FALSE, formatted |-> <<>>]
       ELSE IF n = 10
         THEN [ok |-> TRUE,
               formatted |-> <<"(">> \o SubSeq(digits, 1, 3) \o <<")", " ">>
                             \o SubSeq(digits, 4, 6) \o <<"-">>
                             \o SubSeq(digits, 7, n)]
         ELSE [ok |-> TRUE,
               formatted |-> <<"+">> \o SubSeq(digits, 1, n - 10) \o <<"-">>
                             \o SubSeq(digits, n - 9, n - 7) \o <<"-">>
                             \o SubSeq(digits, n - 6, n - 4) \o <<"-">>
                             \o SubSeq(digits, n - 3, n)]

\* validate_email: the empty string is accepted, anything else must match
\* ^[a-zA-Z0-9._%+-]+@[a-zA-Z0-9.-]+\.[a-zA-Z]{2,}$ : i is the position of
\* the "@", j the position of the dot before the final letters.
LocalChars == Letters \cup Digits \cup {".", "_", "%", "+", "-"}
DomainChars == Letters \cup Digits \cup {".", "-"}

validate_email(email) ==
  \/ email = <<>>
  \/ \E i \in 1..Len(email), j \in 1..Len(email) :
       /\ 1 < i /\ i + 1 < j /\ j + 2 <= Len(email)
       /\ email[i] = "@" /\ email[j] = "."
       /\ \A k \in 1..(i - 1) : email[k] \in LocalChars
       /\ \A k \in (i + 1)..(j - 1) : email[k] \in DomainChars
       /\ \A k \in (j + 1)..Len(email) : email[k] \in Letters

\* ----------------------------------------------------------- JSON file
\* json.dump writes every record as its key/value pairs and json.load
\* builds the records back from the pairs; a record keeps exactly the keys
\* it has (an imported record may lack some).
FieldOrder == <<"name", "phone", "email", "address", "category", "created_date">>

HasKey(c, k) == k \in DOMAIN c

DumpRecord(c) ==
  LET present(k) == HasKey(c, k)
      keys == SelectSeq(FieldOrder, present)
  IN [i \in 1..Len(keys) |-> <<keys[i], c[keys[i]]>>]

JsonDump(cs) == [i \in 1..Len(cs) |-> DumpRecord(cs[i])]

LoadRecord(pairs) ==
  LET keys == {pairs[i][1] : i \in 1..Len(pairs)}
  IN [k \in keys |-> LET i == CHOOSE i \in 1..Len(pairs) : pairs[i][1] = k
                     IN pairs[i][2]]

JsonLoad(text) == [i \in 1..Len(text) |-> LoadRecord(text[i])]

\* The backing file and every backup: absent, a complete JSON text, or a
\* partial text left behind by a write that failed after open(..., 'w').
NoFile == [state |-> "absent", text |-> <<>>, mtime |-> 0]
ValidFile(text, t) == [state |-> "valid", text |-> text, mtime |-> t]
PartialFile(t) == [state |-> "partial", text |-> <<>>, mtime |-> t]

SaveOutcomes == {"ok", "open_fail", "write_fail"}

\* save_contacts without its except branch: True whatever happened.
save_contacts_unchecked(cs, f, outcome, t) ==
  CASE outcome = "ok" -> [ok |-> TRUE, file |-> ValidFile(JsonDump(cs), t)]
    [] outcome = "open_fail" -> [ok |-> TRUE, file |-> f]
    [] OTHER -> [ok |-> TRUE, file |-> PartialFile(t)]

\* save_contacts: returns True after a complete write; returns False when
\* open() fails (file untouched) or when the write fails after open() has
\* truncated the file.
save_contacts(cs, f, outcome, t) ==
  CASE outcome = "ok" -> [ok |-> TRUE, file |-> ValidFile(JsonDump(cs), t)]
    [] outcome = "open_fail" -> [ok |-> FALSE, file |-> f]
    [] OTHER -> [ok |-> FALSE, file |-> PartialFile(t)]

\* ------------------------------------------------------------------- run
\* The while loop of run after a menu action: an Exception that leaves the
\* action is caught and the menu comes back.
LoopAfterUncaught(r) == r.op \notin {"exit", "interrupt"} /\ r.msg # "exception"

\* The while loop of run after a menu action, r being what the action
\* reported: the loop goes on when the action returned and when an Exception
\* left it (caught at "except Exception"); it ends at choice '11' and at a
\* KeyboardInterrupt, the two places with a break.
LoopAfter(r) == r.op \notin {"exit", "interrupt"}

\* ------------------------------------------------------------ add_contact
Other == <<"O", "t", "h", "e", "r">>

\* The duplicate loop with the names compared as typed, without lower().
RECURSIVE AddScanCaseSensitive(_, _, _, _)
AddScanCaseSensitive(cs, i, name, formatted) ==
  IF i > Len(cs) THEN "none"
  ELSE IF ~HasKey(cs[i], "name") THEN "exception"
  ELSE IF cs[i].name = name THEN "dup_name"
  ELSE IF ~HasKey(cs[i], "phone") THEN "exception"
  ELSE IF cs[i].phone = formatted THEN "dup_phone"
  ELSE AddScanCaseSensitive(cs, i + 1, name, formatted)

\* The duplicate loop of add_contact, in list order; a record without the
\* key it reads raises KeyError.
RECURSIVE AddScan(_, _, _, _)
AddScan(cs, i, name, formatted) ==
  IF i > Len(cs) THEN "none"
  ELSE IF ~HasKey(cs[i], "name") THEN "exception"
  ELSE IF Lower(cs[i].name) = Lower(name) THEN "dup_name"
  ELSE IF ~HasKey(cs[i], "phone") THEN "exception"
  ELSE IF cs[i].phone = formatted THEN "dup_phone"
  ELSE AddScan(cs, i + 1, name, formatted)

NewContact(name, formatted, email, address, category, t) ==
  [name |-> name, phone |-> formatted, email |-> email, address |-> address,
   category |-> category, created_date |-> t]

Unchanged(cs, f, msg) == [contacts |-> cs, file |-> f, msg |-> msg]

\* What the handler printed last: the handler, the kind of message, whether
\* create_backup returned a path, and the two counts of an import.
Report(op, msg) ==
  [op |-> op, msg |-> msg, made |-> FALSE, imported |-> 0, skipped |-> 0]

add_contact(cs, f, nameIn, phoneIn, emailIn, addressIn, categoryIn, outcome, t) ==
  LET name == Strip(nameIn)
      phone_input == Strip(phoneIn)
      vp == validate_phone(phone_input)
      email == Strip(emailIn)
      address == Strip(addressIn)
      category == IF Strip(categoryIn) = <<>> THEN Other ELSE Strip(categoryIn)
      scan == AddScan(cs, 1, name, vp.formatted)
      appended == Append(cs, NewContact(name, vp.formatted, email, address,
                                        category, t))
      saved == save_contacts(appended, f, outcome, t)
  IN IF name = <<>> THEN Unchanged(cs, f, "name_empty")
     ELSE IF phone_input = <<>> THEN Unchanged(cs, f, "phone_empty")
     ELSE IF ~vp.ok THEN Unchanged(cs, f, "phone_error")
     ELSE IF email # <<>> /\ ~validate_email(email)
       THEN Unchanged(cs, f, "email_error")
     ELSE IF scan # "none" THEN Unchanged(cs, f, scan)
     ELSE [contacts |-> appended, file |-> saved.file,
           msg |-> IF saved.ok THEN "success" ELSE "warning"]

AddContact(nameIn, phoneIn, emailIn, addressIn, categoryIn, outcome) ==
  LET r == add_contact(contacts, file, nameIn, phoneIn, emailIn, addressIn,
                       categoryIn, outcome, now)
  IN /\ Len(r.contacts) <= MaxContacts
     /\ contacts' = r.contacts
     /\ file' = r.file
     /\ report' = Report("add", r.msg)
     /\ UNCHANGED <<backups, now>>
     /\ UNCHANGED <<exported, phone_call, pager, tasks, todo_data, game>>
     /\ running /\ running' = LoopAfter(report')

\* ------------------------------------------------------- view_contacts
\* view_contacts(show_pagination=False) prints contact['name'] and
\* contact['phone'] of every record; a record without one of them raises
\* KeyError.  update_contact and delete_contact call it outside their try.
ViewRaises(cs) ==
  \E i \in 1..Len(cs) : ~HasKey(cs[i], "name") \/ ~HasKey(cs[i], "phone")

\* int(input(...)): the value of a string of decimal digits with an
\* optional sign, blanks around it ignored; anything else raises ValueError
\* (parsed = FALSE).
DigitValue(c) ==
  CASE c = "0" -> 0 [] c = "1" -> 1 [] c = "2" -> 2 [] c = "3" -> 3
    [] c = "4" -> 4 [] c = "5" -> 5 [] c = "6" -> 6 [] c = "7" -> 7
    [] c = "8" -> 8 [] OTHER -> 9

RECURSIVE DecimalValue(_)
DecimalValue(s) ==
  IF s = <<>> THEN 0
  ELSE 10 * DecimalValue(SubSeq(s, 1, Len(s) - 1)) + DigitValue(s[Len(s)])

\* A parse that answers 1 for a text that is no number.
ParseIntOrOne(s) ==
  LET t == Strip(s)
  IN IF t # <<>> /\ \A i \in 1..Len(t) : IsDigit(t[i])
       THEN [parsed |-> TRUE, value |-> DecimalValue(t)]
       ELSE [parsed |-> TRUE, value |-> 1]

ParseInt(s) ==
  LET t == Strip(s)
      signed == t # <<>> /\ Head(t) \in {"+", "-"}
      body == IF signed THEN Tail(t) ELSE t
      value == DecimalValue(body)
  IN IF body # <<>> /\ \A i \in 1..Len(body) : IsDigit(body[i])
       THEN [parsed |-> TRUE,
             value |-> IF signed /\ Head(t) = "-" THEN 0 - value ELSE value]
       ELSE [parsed |-> FALSE, value |-> 0]

\* confirm = input(...).lower(); confirm in ['yes', 'y']
Confirmed(confirmIn) ==
  Lower(confirmIn) \in {<<"y", "e", "s">>, <<"y">>}

\* --------------------------------------------------------- update_contact
\* The fields are assigned one after the other on the record in the list;
\* each Step below is the record after that prompt.
GetOr(c, k, default) == IF HasKey(c, k) THEN c[k] ELSE default

SetKey(c, k, v) == [x \in DOMAIN c \cup {k} |-> IF x = k THEN v ELSE c[x]]

\* The assignment of an update that also renews the creation time.
ReplaceAtRestamped(cs, i, c) ==
  [cs EXCEPT ![i] = SetKey(c, "created_date", GetOr(c, "created_date", 0) + 1)]

ReplaceAt(cs, i, c) == [cs EXCEPT ![i] = c]

update_contact(cs, f, choiceIn, nameIn, phoneIn, emailIn, addressIn, categoryIn, outcome, t) ==
  LET choice == ParseInt(choiceIn)
      i == choice.value
      contact == cs[i]
      new_name == Strip(nameIn)
      new_phone == Strip(phoneIn)
      new_email == Strip(emailIn)
      new_address == Strip(addressIn)
      new_category == Strip(categoryIn)
      vp == validate_phone(new_phone)
      c1 == IF new_name # <<>> THEN SetKey(contact, "name", new_name)
            ELSE contact
      c2 == IF new_phone # <<>> THEN SetKey(c1, "phone", vp.formatted) ELSE c1
      current_email == GetOr(c2, "email", <<>>)
      emailChanged == new_email # <<>> /\ new_email # current_email
      c3 == IF emailChanged THEN SetKey(c2, "email", new_email) ELSE c2
      c4 == IF new_address # <<>> THEN SetKey(c3, "address", new_address)
            ELSE c3
      c5 == IF new_category # <<>> THEN SetKey(c4, "category", new_category)
            ELSE c4
      saved == save_contacts(ReplaceAt(cs, i, c5), f, outcome, t)
  IN IF cs = <<>> THEN Unchanged(cs, f, "no_contacts")
     ELSE IF ViewRaises(cs) THEN Unchanged(cs, f, "exception")
     ELSE IF ~choice.parsed THEN Unchanged(cs, f, "value_error")
     ELSE IF ~(1 <= i /\ i <= Len(cs)) THEN Unchanged(cs, f, "invalid_index")
     ELSE IF new_phone # <<>> /\ ~vp.ok
       THEN [contacts |-> ReplaceAt(cs, i, c1), file |-> f,
             msg |-> "phone_error"]
     ELSE IF emailChanged /\ ~validate_email(new_email)
       THEN [contacts |-> ReplaceAt(cs, i, c2), file |-> f,
             msg |-> "email_error"]
     ELSE [contacts |-> ReplaceAt(cs, i, c5), file |-> saved.file,
           msg |-> IF saved.ok THEN "success" ELSE "warning"]

UpdateContact(choiceIn, nameIn, phoneIn, emailIn, addressIn, categoryIn, outcome) ==
  LET r == update_contact(contacts, file, choiceIn, nameIn, phoneIn, emailIn,
                          addressIn, categoryIn, outcome, now)
  IN /\ contacts' = r.contacts
     /\ file' = r.file
     /\ report' = Report("update", r.msg)
     /\ UNCHANGED <<backups, now>>
     /\ UNCHANGED <<exported, phone_call, pager, tasks, todo_data, game>>
     /\ running /\ running' = LoopAfter(report')

\* ---------------------------------------------------------- create_backup
\* The backup directory: a function from the timestamp in the file name
\* (the second of the wall clock) to the file of that name.
EmptyBackups == [n \in {} |-> NoFile]

PutBackup(bk, n, x) ==
  [m \in DOMAIN bk \cup {n} |-> IF m = n THEN x ELSE bk[m]]

CopyOutcomes == {"ok", "fail", "partial"}

\* shutil.copy2 copies content and modification time; it raises when the
\* source does not exist, when the target cannot be opened ("fail") or
\* when the write stops after the target was opened ("partial").  Any
\* exception makes create_backup return None (made = FALSE).
create_backup(f, bk, outcome, t) ==
  IF f.state = "absent" \/ outcome = "fail"
    THEN [made |-> FALSE, backups |-> bk]
  ELSE IF outcome = "partial"
    THEN [made |-> FALSE, backups |-> PutBackup(bk, t, PartialFile(t))]
  ELSE [made |-> TRUE, backups |-> PutBackup(bk, t, f)]

\* manage_backups, choice '1'
CreateBackup(outcome) ==
  LET b == create_backup(file, backups, outcome, now)
  IN /\ backups' = b.backups
     /\ report' = [Report("backup", IF b.made THEN "success" ELSE "error")
                     EXCEPT !.made = b.made]
     /\ UNCHANGED <<contacts, file, now>>
     /\ UNCHANGED <<exported, phone_call, pager, tasks, todo_data, game>>
     /\ running /\ running' = LoopAfter(report')

\* --------------------------------------------------------- delete_contact
RemoveAt(cs, i) == SubSeq(cs, 1, i - 1) \o SubSeq(cs, i + 1, Len(cs))

\* The rollback with append in place of insert.
InsertAtEnd(cs, i, c) == Append(cs, c)

\* list.insert(i - 1, x) of the code, with the 1-based position i
InsertAt(cs, i, c) == SubSeq(cs, 1, i - 1) \o <<c>> \o SubSeq(cs, i, Len(cs))

delete_contact(cs, f, bk, choiceIn, confirmIn, copyOutcome, outcome, t) ==
  LET choice == ParseInt(choiceIn)
      i == choice.value
      kept(msg) == [contacts |-> cs, file |-> f, backups |-> bk,
                    made |-> FALSE, msg |-> msg]
      b == create_backup(f, bk, copyOutcome, t)
      popped == RemoveAt(cs, i)
      saved == save_contacts(popped, f, outcome, t)
  IN IF cs = <<>> THEN kept("no_contacts")
     ELSE IF ViewRaises(cs) THEN kept("exception")
     ELSE IF ~choice.parsed THEN kept("value_error")
     ELSE IF ~(1 <= i /\ i <= Len(cs)) THEN kept("invalid_index")
     ELSE IF ~Confirmed(confirmIn) THEN kept("cancelled")
     ELSE IF saved.ok
       THEN [contacts |-> popped, file |-> saved.file, backups |-> b.backups,
             made |-> b.made, msg |-> "success"]
     ELSE [contacts |-> InsertAt(popped, i, cs[i]), file |-> saved.file,
           backups |-> b.backups, made |-> b.made, msg |-> "save_error"]

DeleteContact(choiceIn, confirmIn, copyOutcome, outcome) ==
  LET r == delete_contact(contacts, file, backups, choiceIn, confirmIn,
                          copyOutcome, outcome, now)
  IN /\ contacts' = r.contacts
     /\ file' = r.file
     /\ backups' = r.backups
     /\ report' = [Report("delete", r.msg) EXCEPT !.made = r.made]
     /\ UNCHANGED now
     /\ UNCHANGED <<exported, phone_call, pager, tasks, todo_data, game>>
     /\ running /\ running' = LoopAfter(report')

\* --------------------------------------------------------- import_contacts
\* The duplicate test of one candidate against the list, in list order,
\* with the short-circuit of "or"; reading a missing key raises KeyError.
RECURSIVE ImportScan(_, _, _)
ImportScan(cs, i, cand) ==
  IF i > Len(cs) THEN "new"
  ELSE IF ~HasKey(cs[i], "name") \/ ~HasKey(cand, "name") THEN "exception"
  ELSE IF Lower(cs[i].name) = Lower(cand.name) THEN "exists"
  ELSE IF ~HasKey(cs[i], "phone") \/ ~HasKey(cand, "phone") THEN "exception"
  ELSE IF cs[i].phone = cand.phone THEN "exists"
  ELSE ImportScan(cs, i + 1, cand)

\* "Ensure required fields"
WithDefaults(cand, t) ==
  LET c1 == IF HasKey(cand, "category") THEN cand
            ELSE SetKey(cand, "category", Other)
  IN IF HasKey(c1, "created_date") THEN c1 ELSE SetKey(c1, "created_date", t)

\* The loop over imported_contacts from candidate k on; acc is the list and
\* the two counters so far.
RECURSIVE ImportLoop(_, _, _, _)
ImportLoop(acc, cands, k, t) ==
  IF k > Len(cands) THEN acc
  ELSE LET scan == ImportScan(acc.contacts, 1, cands[k])
       IN IF scan = "exception" THEN [acc EXCEPT !.raised = TRUE]
          ELSE IF scan = "exists"
            THEN ImportLoop([acc EXCEPT !.skipped = @ + 1], cands, k + 1, t)
          ELSE ImportLoop([acc EXCEPT
                             !.contacts = Append(@, WithDefaults(cands[k], t)),
                             !.imported = @ + 1],
                          cands, k + 1, t)

\* csv.DictReader: one record per row, keyed by the header row.
CsvRead(header, rows) ==
  [r \in 1..Len(rows) |->
     [k \in {header[i] : i \in 1..Len(header)} |->
        rows[r][CHOOSE i \in 1..Len(header) : header[i] = k]]]

\* import_contacts that puts the list back as it was when a candidate raises.
import_contacts_atomic(cs, f, src, outcome, t) ==
  LET cands == IF src.kind = "json" THEN JsonLoad(src.text)
               ELSE CsvRead(src.header, src.rows)
      done == ImportLoop([contacts |-> cs, imported |-> 0, skipped |-> 0,
                          raised |-> FALSE], cands, 1, t)
      saved == save_contacts(done.contacts, f, outcome, t)
      kept(msg) == [contacts |-> cs, file |-> f, msg |-> msg,
                    imported |-> 0, skipped |-> 0]
  IN IF src.kind = "missing" THEN kept("not_found")
     ELSE IF src.kind = "other" THEN kept("unsupported")
     ELSE IF src.kind = "json" /\ src.state # "valid" THEN kept("exception")
     ELSE IF done.raised
       THEN kept("exception")
     ELSE IF saved.ok
       THEN [contacts |-> done.contacts, file |-> saved.file,
             msg |-> "success", imported |-> done.imported,
             skipped |-> done.skipped]
     ELSE [contacts |-> done.contacts, file |-> saved.file,
           msg |-> "save_error", imported |-> 0, skipped |-> 0]

\* The file named at the prompt: kind "missing" (no such file), "other"
\* (neither .json nor .csv), "json" with a JSON text (a text that does not
\* parse has state "partial"), or "csv" with a header and rows.
import_contacts(cs, f, src, outcome, t) ==
  LET cands == IF src.kind = "json" THEN JsonLoad(src.text)
               ELSE CsvRead(src.header, src.rows)
      done == ImportLoop([contacts |-> cs, imported |-> 0, skipped |-> 0,
                          raised |-> FALSE], cands, 1, t)
      saved == save_contacts(done.contacts, f, outcome, t)
      kept(msg) == [contacts |-> cs, file |-> f, msg |-> msg,
                    imported |-> 0, skipped |-> 0]
  IN IF src.kind = "missing" THEN kept("not_found")
     ELSE IF src.kind = "other" THEN kept("unsupported")
     ELSE IF src.kind = "json" /\ src.state # "valid" THEN kept("exception")
     ELSE IF done.raised
       THEN [contacts |-> done.contacts, file |-> f, msg |-> "exception",
             imported |-> 0, skipped |-> 0]
     ELSE IF saved.ok
       THEN [contacts |-> done.contacts, file |-> saved.file,
             msg |-> "success", imported |-> done.imported,
             skipped |-> done.skipped]
     ELSE [contacts |-> done.contacts, file |-> saved.file,
           msg |-> "save_error", imported |-> 0, skipped |-> 0]

ImportContacts(src, outcome) ==
  LET r == import_contacts(contacts, file, src, outcome, now)
  IN /\ Len(r.contacts) <= MaxContacts
     /\ contacts' = r.contacts
     /\ file' = r.file
     /\ report' = [Report("import", r.msg) EXCEPT !.imported = r.imported,
                                                !.skipped = r.skipped]
     /\ UNCHANGED <<backups, now>>
     /\ UNCHANGED <<exported, phone_call, pager, tasks, todo_data, game>>
     /\ running /\ running' = LoopAfter(report')

\* ----------------------------------------------------- restore_from_backup
\* The listing sorted without reverse=True: oldest timestamp first.
RECURSIVE NamesOldestFirst(_)
NamesOldestFirst(S) ==
  IF S = {} THEN <<>>
  ELSE LET m == CHOOSE x \in S : \A y \in S : x <= y
       IN <<m>> \o NamesOldestFirst(S \ {m})

\* sorted(backup_files, reverse=True): the names, newest timestamp first.
RECURSIVE NamesDescending(_)
NamesDescending(S) ==
  IF S = {} THEN <<>>
  ELSE LET m == CHOOSE x \in S : \A y \in S : y <= x
       IN <<m>> \o NamesDescending(S \ {m})

restore_from_backup(cs, f, bk, choiceIn, confirmIn, outcome, t) ==
  LET choice == ParseInt(choiceIn)
      i == choice.value
      listed == NamesDescending(DOMAIN bk)
      backup == bk[listed[i]]
      loaded == JsonLoad(backup.text)
      saved == save_contacts(loaded, f, outcome, t)
  IN IF DOMAIN bk = {} THEN Unchanged(cs, f, "no_backups")
     ELSE IF ~choice.parsed THEN Unchanged(cs, f, "exception")
     ELSE IF ~(1 <= i /\ i <= Len(listed))
       THEN Unchanged(cs, f, "invalid_index")
     ELSE IF ~Confirmed(confirmIn) THEN Unchanged(cs, f, "cancelled")
     ELSE IF backup.state # "valid" THEN Unchanged(cs, f, "exception")
     ELSE [contacts |-> loaded, file |-> saved.file,
           msg |-> IF saved.ok THEN "success" ELSE "save_error"]

RestoreFromBackup(choiceIn, confirmIn, outcome) ==
  LET r == restore_from_backup(contacts, file, backups, choiceIn, confirmIn,
                               outcome, now)
  IN /\ contacts' = r.contacts
     /\ file' = r.file
     /\ report' = Report("restore", r.msg)
     /\ UNCHANGED <<backups, now>>
     /\ UNCHANGED <<exported, phone_call, pager, tasks, todo_data, game>>
     /\ running /\ running' = LoopAfter(report')

\* ----------------------------------------------------- cleanup_old_backups
\* os.listdir gives the names in an order the code does not control; the
\* model takes them by ascending or by descending name.
RECURSIVE NamesAscending(_)
NamesAscending(S) ==
  IF S = {} THEN <<>>
  ELSE LET m == CHOOSE x \in S : \A y \in S : x <= y
       IN <<m>> \o NamesAscending(S \ {m})

ListDir(bk, descending) ==
  IF descending THEN NamesDescending(DOMAIN bk) ELSE NamesAscending(DOMAIN bk)

\* The sort without reverse=True: oldest first.
RECURSIVE InsertByMtimeAscending(_, _, _)
InsertByMtimeAscending(sorted, n, bk) ==
  IF sorted = <<>> THEN <<n>>
  ELSE IF bk[Head(sorted)].mtime <= bk[n].mtime
    THEN <<Head(sorted)>> \o InsertByMtimeAscending(Tail(sorted), n, bk)
    ELSE <<n>> \o sorted

\* list.sort(key=getmtime, reverse=True) is stable: names of equal
\* modification time keep the order they had.
RECURSIVE InsertByMtime(_, _, _)
InsertByMtime(sorted, n, bk) ==
  IF sorted = <<>> THEN <<n>>
  ELSE IF bk[Head(sorted)].mtime >= bk[n].mtime
    THEN <<Head(sorted)>> \o InsertByMtime(Tail(sorted), n, bk)
    ELSE <<n>> \o sorted

RECURSIVE SortByMtime(_, _)
SortByMtime(names, bk) ==
  IF names = <<>> THEN <<>>
  ELSE InsertByMtime(SortByMtime(SubSeq(names, 1, Len(names) - 1), bk),
                     names[Len(names)], bk)

\* backup_files[5:]
FilesToDelete(sorted) == SubSeq(sorted, KeepBackups + 1, Len(sorted))

RemoveBackups(bk, names) ==
  [m \in DOMAIN bk \ {names[i] : i \in 1..Len(names)} |-> bk[m]]

\* failAt is the position in files_to_delete of the os.remove that raises
\* (Len + 1: none does); the files before it are gone when it raises.
cleanup_old_backups(bk, descending, confirmIn, failAt) ==
  LET backup_files == SortByMtime(ListDir(bk, descending), bk)
      files_to_delete == FilesToDelete(backup_files)
      removed == SubSeq(files_to_delete, 1, failAt - 1)
  IN IF Cardinality(DOMAIN bk) <= KeepBackups
       THEN [backups |-> bk, msg |-> "no_cleanup"]
     ELSE IF ~Confirmed(confirmIn) THEN [backups |-> bk, msg |-> "cancelled"]
     ELSE [backups |-> RemoveBackups(bk, removed),
           msg |-> IF failAt > Len(files_to_delete) THEN "success"
                   ELSE "exception"]

CleanupOldBackups(descending, confirmIn, failAt) ==
  LET r == cleanup_old_backups(backups, descending, confirmIn, failAt)
  IN /\ failAt <= Len(FilesToDelete(ListDir(backups, descending))) + 1
     /\ backups' = r.backups
     /\ report' = Report("cleanup", r.msg)
     /\ UNCHANGED <<contacts, file, now>>
     /\ UNCHANGED <<exported, phone_call, pager, tasks, todo_data, game>>
     /\ running /\ running' = LoopAfter(report')

\* ------------------------------------------------------------------ time
\* The wall clock, in seconds: datetime.now() in created_date, in the
\* backup file name and in the modification time of a written file.
Tick(limit) ==
  /\ now < limit
  /\ now' = now + 1
  /\ report' = Report("tick", "none")
  /\ UNCHANGED <<contacts, file, backups>>
  /\ UNCHANGED <<exported, phone_call, pager, running, tasks, todo_data, game>>

\* ---------------------------------------------------------------- inputs
S_Al == <<"A", "l">>
S_al == <<"a", "l">>
S_Bo == <<"B", "o">>
S_blank == <<" ">>

P_one == <<"5", "5", "5", "1", "2", "3", "4", "5", "6", "7">>
P_oneDashed == <<"5", "5", "5", "-", "1", "2", "3", "-", "4", "5", "6", "7">>
P_intl == <<"1", "5", "5", "5", "1", "2", "3", "4", "5", "6", "7">>
P_short == <<"1", "2", "3">>

E_bad == <<"a", "@", "b">>

C_1 == <<"1">>
C_2 == <<"2">>
C_9 == <<"9">>
C_x == <<"x">>
ChoiceInputs == {C_1, C_2, C_9, C_x}

Yes == <<"Y">>
No == <<"n", "o">>
ConfirmInputs == {Yes, No}

\* Files offered to import_contacts.
JsonFile(cands) == [kind |-> "json", state |-> "valid", text |-> JsonDump(cands)]
BrokenJson == [kind |-> "json", state |-> "partial", text |-> <<>>]
MissingFile == [kind |-> "missing"]
TextFile == [kind |-> "other"]
CsvFile(header, rows) == [kind |-> "csv", header |-> header, rows |-> rows]

F_one == validate_phone(P_one).formatted

\* {"name": "", "phone": "123"}
CandBlank == [name |-> <<>>, phone |-> P_short]
\* {"phone": "(555) 123-4567"}
CandPhoneOnly == [phone |-> F_one]

\* What is typed at the prompts of add_contact: name, phone, e-mail.
AddInputs ==
  {<<S_Al, P_one, <<>>>>, <<S_Bo, P_intl, <<>>>>, <<S_al, P_short, <<>>>>,
   <<S_al, P_intl, <<>>>>, <<S_Bo, P_oneDashed, <<>>>>,
   <<S_blank, P_one, <<>>>>, <<S_Bo, S_blank, <<>>>>, <<S_Bo, P_intl, E_bad>>}

\* What is typed at the prompts of update_contact: number, name, phone,
\* e-mail.
UpdateInputs ==
  {<<C_2, S_al, <<>>, <<>>>>, <<C_2, <<>>, P_one, <<>>>>,
   <<C_1, S_Bo, P_short, <<>>>>, <<C_1, <<>>, P_oneDashed, E_bad>>,
   <<C_9, <<>>, <<>>, <<>>>>, <<C_x, <<>>, <<>>, <<>>>>}

\* --------------------------------------------------------- export_contacts
C_3 == <<"3">>

\* csv.DictWriter over the six fieldnames: a key the record lacks is written
\* as the empty string, a key outside the fieldnames raises ValueError.
HasExtraKeys(c) == \E k \in DOMAIN c : \A i \in 1..Len(FieldOrder) : FieldOrder[i] # k

CsvRow(c) == [i \in 1..Len(FieldOrder) |-> GetOr(c, FieldOrder[i], <<>>)]

\* The rows written before the first record that raises.
RECURSIVE CsvRows(_, _)
CsvRows(cs, i) ==
  IF i > Len(cs) \/ HasExtraKeys(cs[i]) THEN <<>>
  ELSE <<CsvRow(cs[i])>> \o CsvRows(cs, i + 1)

\* The file the export leaves behind (ex is the file of that name before)
\* and the message: format '1' is CSV, '2' text, '3' JSON.  open() may fail
\* (ex stays as it was) and a write may fail after open() has truncated the
\* file.  The text format reads contact['name'] and contact['phone'].
export_contacts(cs, ex, formatIn, outcome) ==
  LET format_choice == Strip(formatIn)
      failed(x) == [exported |-> x, msg |-> "exception"]
  IN IF cs = <<>> THEN [exported |-> ex, msg |-> "no_contacts"]
     ELSE IF format_choice \notin {C_1, C_2, C_3}
       THEN [exported |-> ex, msg |-> "invalid_format"]
     ELSE IF outcome = "open_fail" THEN failed(ex)
     ELSE IF format_choice = C_1
       THEN IF outcome = "write_fail" THEN failed(CsvFile(FieldOrder, <<>>))
            ELSE IF \E i \in 1..Len(cs) : HasExtraKeys(cs[i])
              THEN failed(CsvFile(FieldOrder, CsvRows(cs, 1)))
            ELSE [exported |-> CsvFile(FieldOrder, CsvRows(cs, 1)),
                  msg |-> "success"]
     ELSE IF format_choice = C_2
       THEN IF outcome = "write_fail" \/ ViewRaises(cs) THEN failed(TextFile)
            ELSE [exported |-> TextFile, msg |-> "success"]
     ELSE IF outcome = "write_fail" THEN failed(BrokenJson)
     ELSE [exported |-> JsonFile(cs), msg |-> "success"]

ExportContacts(formatIn, outcome) ==
  LET r == export_contacts(contacts, exported, formatIn, outcome)
  IN /\ exported' = r.exported
     /\ report' = Report("export", r.msg)
     /\ UNCHANGED <<contacts, file, backups, now, phone_call, pager, tasks, todo_data, game>>
     /\ running /\ running' = LoopAfter(report')

\* ---------------------------------------------------- a call of validate_phone
\* The argument of a call of validate_phone and, once it has returned, the
\* pair it returned: (formatted, None) or (None, message).
NoCall == [phone |-> <<>>, returned |-> FALSE, formatted |-> <<>>, error |-> FALSE]

Call(phone) == [NoCall EXCEPT !.phone = phone]

ValidatePhone ==
  LET r == validate_phone(phone_call.phone)
  IN /\ ~phone_call.returned
     /\ phone_call' = [phone_call EXCEPT !.returned = TRUE,
                                         !.formatted = r.formatted,
                                         !.error = ~r.ok]
     /\ UNCHANGED <<contacts, file, backups, now, report, exported, pager,
                    running, tasks, todo_data, game>>

\* The formatted phone is what the record keeps and what the prompt of
\* update_contact shows; typed again, it is the argument of the next call.
ValidateAgain ==
  /\ phone_call.returned /\ ~phone_call.error
  /\ phone_call' = Call(phone_call.formatted)
  /\ UNCHANGED <<contacts, file, backups, now, report, exported, pager,
                 running, tasks, todo_data, game>>

\* The arguments: runs of 0..MaxDigits digits, bare or with the punctuation
\* people type in a phone number.
DigitChar(d) == CHOOSE c \in Digits : DigitValue(c) = d

DigitRun(n, k) == [i \in 1..n |-> DigitChar((i + k) % 10)]

\* sep after every third digit
RECURSIVE Grouped(_, _)
Grouped(ds, sep) ==
  IF Len(ds) <= 3 THEN ds
  ELSE SubSeq(ds, 1, 3) \o sep \o Grouped(SubSeq(ds, 4, Len(ds)), sep)

PhoneStyles == {"bare", "dashes", "dots", "extension"}

Styled(ds, style) ==
  CASE style = "bare" -> ds
    [] style = "dashes" -> <<"+">> \o Grouped(ds, <<"-">>)
    [] style = "dots" -> <<"(">> \o Grouped(ds, <<")", " ", ".">>)
    [] OTHER -> <<" ">> \o ds \o <<" ", "e", "x", "t">>

PhoneInputs ==
  {Styled(DigitRun(n, k), style) :
     n \in 0..MaxDigits, k \in {0, 4}, style \in PhoneStyles}

\* ------------------------------------------------- view_contacts, paginated
\* The characters of the model in code point order, for str comparison.
CodeOrder ==
  <<" ", "%", "(", ")", "+", "-", ".", "0", "1", "2", "3", "4", "5", "6", "7",
    "8", "9", "@", "A", "B", "O", "Y", "_", "a", "b", "c", "e", "h", "l", "n",
    "o", "r", "s", "t", "x", "y">>

Ord(c) == CHOOSE i \in 1..Len(CodeOrder) : CodeOrder[i] = c

\* a < b for two str
RECURSIVE TextLess(_, _)
TextLess(a, b) ==
  IF b = <<>> THEN FALSE
  ELSE IF a = <<>> THEN TRUE
  ELSE IF Head(a) = Head(b) THEN TextLess(Tail(a), Tail(b))
  ELSE Ord(Head(a)) < Ord(Head(b))

\* The sort key of a record under sort option '1'..'5'; created_date, an
\* ISO time, is compared as the second it names.
SortKey(c, option) ==
  CASE option = "1" -> Lower(c.name)
    [] option = "2" -> c.phone
    [] option = "3" -> Lower(GetOr(c, "email", <<>>))
    [] option = "4" -> GetOr(c, "category", Other)
    [] OTHER -> GetOr(c, "created_date", 0)

\* x sorts strictly before y: options '1'..'4' ascending, '5' with
\* reverse=True.
SortsBefore(x, y, option) ==
  IF option = "5" THEN SortKey(x, option) > SortKey(y, option)
  ELSE TextLess(SortKey(x, option), SortKey(y, option))

\* sorted() is stable: a record goes behind the records it does not sort
\* strictly before.
RECURSIVE InsertSorted(_, _, _)
InsertSorted(sorted, c, option) ==
  IF sorted = <<>> THEN <<c>>
  ELSE IF SortsBefore(c, Head(sorted), option) THEN <<c>> \o sorted
  ELSE <<Head(sorted)>> \o InsertSorted(Tail(sorted), c, option)

RECURSIVE Sorted(_, _)
Sorted(cs, option) ==
  IF cs = <<>> THEN <<>>
  ELSE InsertSorted(Sorted(SubSeq(cs, 1, Len(cs) - 1), option),
                    cs[Len(cs)], option)

\* self.contacts_per_page
contacts_per_page == 10

\* total // contacts_per_page, the pages that are full
TotalPagesFloor(total) == total \div contacts_per_page

TotalPages(total) == (total + contacts_per_page - 1) \div contacts_per_page

\* The rows printed for a page: the number printed and the record.
PageRows(list, current_page) ==
  LET start_idx == (current_page - 1) * contacts_per_page
      end_idx == Min(start_idx + contacts_per_page, Len(list))
  IN [j \in 1..(end_idx - start_idx) |-> <<start_idx + j, list[start_idx + j]>>]

AllRows(list) == [j \in 1..Len(list) |-> <<j, list[j]>>]

\* The pager: closed, or inside the while loop of view_contacts waiting at
\* "Enter choice: " with a page on the screen.
NoPager ==
  [state |-> "closed", list |-> <<>>, total_pages |-> 0, current_page |-> 0,
   shown |-> <<>>]

Paging(list, total_pages, current_page) ==
  [state |-> "paging", list |-> list, total_pages |-> total_pages,
   current_page |-> current_page, shown |-> PageRows(list, current_page)]

\* Printing a page raises KeyError at a record without name or phone; so
\* does the sort by name or by phone.
PageRaises(list, current_page) ==
  \E j \in 1..Len(PageRows(list, current_page)) :
    LET c == PageRows(list, current_page)[j][2]
    IN ~HasKey(c, "name") \/ ~HasKey(c, "phone")

SortRaises(cs, option) ==
  \/ option = "1" /\ \E i \in 1..Len(cs) : ~HasKey(cs[i], "name")
  \/ option = "2" /\ \E i \in 1..Len(cs) : ~HasKey(cs[i], "phone")

SortOptions == {<<"1">>, <<"2">>, <<"3">>, <<"4">>, <<"5">>}

\* view_contacts() from the menu up to its first prompt inside the loop, or
\* to its return.
view_contacts(cs, sortIn) ==
  LET sort_choice == Strip(sortIn)
      sorts == Len(cs) > 1 /\ sort_choice \in SortOptions
      list == IF sorts THEN Sorted(cs, sort_choice[1]) ELSE cs
      total_pages == TotalPages(Len(cs))
  IN IF cs = <<>> THEN [pager |-> NoPager, msg |-> "no_contacts"]
     ELSE IF sorts /\ SortRaises(cs, sort_choice[1])
       THEN [pager |-> NoPager, msg |-> "exception"]
     ELSE IF Len(cs) > contacts_per_page
       THEN IF PageRaises(list, 1) THEN [pager |-> NoPager, msg |-> "exception"]
            ELSE [pager |-> Paging(list, total_pages, 1), msg |-> "page"]
     ELSE IF ViewRaises(cs) THEN [pager |-> NoPager, msg |-> "exception"]
     ELSE [pager |-> [NoPager EXCEPT !.list = list, !.shown = AllRows(list)],
           msg |-> "all"]

ViewContacts(sortIn) ==
  LET r == view_contacts(contacts, sortIn)
  IN /\ pager.state = "closed"
     /\ pager' = r.pager
     /\ report' = Report("view", r.msg)
     /\ UNCHANGED <<contacts, file, backups, now, exported, phone_call, tasks, todo_data, game>>
     /\ running /\ running' = LoopAfter(report')

\* choice = input("Enter choice: ").lower().strip() inside the loop, and
\* the page printed next.
PagerChoice(choiceIn) ==
  LET choice == Strip(Lower(choiceIn))
      page == pager.current_page
      next_page == IF choice = <<"n">> /\ page < pager.total_pages
                     THEN page + 1
                   ELSE IF choice = <<"p">> /\ page > 1 THEN page - 1
                   ELSE page
  IN /\ pager.state = "paging"
     /\ IF next_page = page /\ choice = <<"q">>
          THEN /\ pager' = [pager EXCEPT !.state = "closed"]
               /\ report' = Report("view", "quit")
        ELSE IF PageRaises(pager.list, next_page)
          THEN /\ pager' = NoPager
               /\ report' = Report("view", "exception")
        ELSE /\ pager' = Paging(pager.list, pager.total_pages, next_page)
             /\ report' = Report("view", "page")
     /\ UNCHANGED <<contacts, file, backups, now, exported, phone_call,
                    running, tasks, todo_data, game>>

\* ------------------------------------------------- run: the other choices
\* search_contact, filter_by_category and show_statistics change nothing:
\* they return at once on an empty list, and otherwise print what they
\* found or let an exception reach run (a record without a name, a
\* created_date that is no ISO time).
ReadOnlyAction(op, raised) ==
  /\ running = TRUE
  /\ report' = Report(op, IF contacts = <<>> THEN "no_contacts"
                          ELSE IF raised THEN "exception" ELSE "shown")
  /\ running' = LoopAfter(report')
  /\ UNCHANGED <<contacts, file, backups, now, exported, phone_call, pager,
                 tasks, todo_data, game>>

\* Choice '11' ("exit") and a KeyboardInterrupt at a prompt of the menu or
\* of an action ("interrupt"): create_backup if the list is not empty, then
\* break.
EndRun(how, copyOutcome) ==
  LET b == IF contacts # <<>> THEN create_backup(file, backups, copyOutcome, now)
           ELSE [made |-> FALSE, backups |-> backups]
  IN /\ running
     /\ backups' = b.backups
     /\ report' = [Report(how, "goodbye") EXCEPT !.made = b.made]
     /\ running' = LoopAfter(report')
     /\ UNCHANGED <<contacts, file, now, exported, phone_call, pager, tasks,
                    todo_data, game>>

\* ------------------------------------------------------------- To-Do.py
\* save_tasks: json.dump of the task list to todo_data.json; a failure is
\* shown in a message box and nothing is returned.
save_tasks(ts, f, outcome, t) ==
  LET dump(task) ==
        <<<<"id", task.id>>, <<"text", task.text>>,
          <<"priority", task.priority>>, <<"status", task.status>>,
          <<"created", task.created>>, <<"completed", task.completed>>>>
  IN CASE outcome = "ok" -> ValidFile([i \in 1..Len(ts) |-> dump(ts[i])], t)
       [] outcome = "open_fail" -> f
       [] OTHER -> PartialFile(t)

\* add_task: the text of the entry field and the priority of the combobox.
AddTask(textIn, priority, outcome) ==
  LET task_text == Strip(textIn)
      task == [id |-> Len(tasks) + 1, text |-> task_text,
               priority |-> priority, status |-> "Pending", created |-> now,
               completed |-> FALSE]
  IN /\ Len(tasks) < MaxTasks
     /\ IF task_text = <<>>
          THEN UNCHANGED <<tasks, todo_data>>
          ELSE /\ tasks' = Append(tasks, task)
               /\ todo_data' = save_tasks(tasks', todo_data, outcome, now)
     /\ UNCHANGED <<contacts, file, backups, now, report, exported,
                    phone_call, pager, running, game>>

\* delete_task with row sel of the tree selected (0: no row) and the answer
\* to the confirmation box.  The rows of the tree are the tasks in list
\* order (refresh_tasks).  item['values'][0] is the text of the row as tkinter
\* hands it back: an int when int() accepts the text, the text otherwise;
\* an int is different from every text.
DeleteTask(sel, confirm, outcome) ==
  LET task_text == tasks[sel].text
      differs(task) == ParseInt(task_text).parsed \/ task.text # task_text
  IN /\ sel \in 0..Len(tasks)
     /\ IF sel = 0 \/ ~confirm
          THEN UNCHANGED <<tasks, todo_data>>
          ELSE /\ tasks' = SelectSeq(tasks, differs)
               /\ todo_data' = save_tasks(tasks', todo_data, outcome, now)
     /\ UNCHANGED <<contacts, file, backups, now, report, exported,
                    phone_call, pager, running, game>>

\* ------------------------------------------ Rock-Paper-Scissors_Game.py
determine_winner(user_choice, computer_choice) ==
  IF user_choice = computer_choice THEN "tie"
  ELSE IF \/ user_choice = "rock" /\ computer_choice = "scissors"
          \/ user_choice = "scissors" /\ computer_choice = "paper"
          \/ user_choice = "paper" /\ computer_choice = "rock"
    THEN "user"
  ELSE "computer"

\* show_final_results: the closing message and, when total_rounds > 1, the
\* statistics: "Total Rounds Played" and the win rate, kept as the fraction
\* <<numerator, denominator>> of the percentage the code prints with one
\* decimal.
show_final_results(user_score, computer_score, total_rounds) ==
  [message |-> IF total_rounds = 1 THEN "thanks"
               ELSE IF user_score > computer_score THEN "victory"
               ELSE IF computer_score > user_score THEN "computer"
               ELSE "tie",
   statistics |-> total_rounds > 1,
   rounds_played |-> total_rounds - 1,
   win_rate |-> <<user_score * 100, total_rounds - 1>>]

\* One pass of the while loop of main: user_choice is what get_user_choice
\* returns ("quit" for None), computer_choice what random.choice returns,
\* again what play_again returns.  results counts the rounds display_result
\* has announced; final holds what show_final_results printed once the loop
\* has ended.
MainLoop ==
  \E user_choice \in {"rock", "paper", "scissors", "quit"},
     computer_choice \in {"rock", "paper", "scissors"}, again \in BOOLEAN :
    LET round_number == game.round_number + 1
        result == determine_winner(user_choice, computer_choice)
        user_score == game.user_score + (IF result = "user" THEN 1 ELSE 0)
        computer_score ==
          game.computer_score + (IF result = "computer" THEN 1 ELSE 0)
    IN /\ game.final = <<>>
       /\ round_number <= MaxRounds
       /\ IF user_choice = "quit"
            THEN game' = [game EXCEPT
                            !.round_number = round_number,
                            !.final = <<show_final_results(game.user_score,
                                          game.computer_score, round_number)>>]
            ELSE game' = [round_number |-> round_number,
                          user_score |-> user_score,
                          computer_score |-> computer_score,
                          results |-> game.results + 1,
                          final |-> IF again THEN <<>>
                                    ELSE <<show_final_results(user_score,
                                             computer_score, round_number)>>]
       /\ UNCHANGED <<contacts, file, backups, now, report, exported,
                      phone_call, pager, running, tasks, todo_data>>

\* The state after construction on a first run: no contacts.json, an empty
\* backup directory.
Init ==
  /\ contacts = <<>>
  /\ file = NoFile
  /\ backups = EmptyBackups
  /\ now = 0
  /\ report = Report("init", "none")
  /\ exported = MissingFile
  /\ phone_call = NoCall
  /\ pager = NoPager
  /\ running = TRUE
  /\ tasks = <<>>
  /\ todo_data = NoFile
  /\ game = [round_number |-> 0, user_score |-> 0, computer_score |-> 0,
             results |-> 0, final |-> <<>>]

\* ------------------------------------------------------------------ Spec
\* Every handler that changes the list, the file or the backups, within one
\* second of the clock.  Each input set holds what is typed at the prompts
\* and how the file system answers.
SpecAddInputs == {<<S_Al, P_one>>, <<S_Bo, P_intl>>}

\* An update that keeps every field (all prompts answered with Enter), and
\* one with a contact number that is out of range.
SpecUpdateInputs == {<<C_1, <<>>>>, <<C_9, <<>>>>}

SpecDeleteInputs ==
  {<<C_1, Yes, b, o>> : b \in {"ok", "fail"}, o \in SaveOutcomes}
    \cup {<<C_1, No, "ok", "ok">>, <<C_x, Yes, "ok", "ok">>}

SpecRestoreInputs ==
  {<<C_1, Yes, o>> : o \in SaveOutcomes}
    \cup {<<C_1, No, "ok">>, <<C_9, Yes, "ok">>}

Next ==
  \/ \E a \in SpecAddInputs, o \in SaveOutcomes :
          AddContact(a[1], a[2], <<>>, <<>>, <<>>, o)
  \/ \E u \in SpecUpdateInputs, o \in SaveOutcomes :
          UpdateContact(u[1], u[2], <<>>, <<>>, <<>>, <<>>, o)
  \/ \E d \in SpecDeleteInputs : DeleteContact(d[1], d[2], d[3], d[4])
  \/ \E src \in {MissingFile, JsonFile(<<CandBlank>>)}, o \in SaveOutcomes :
          ImportContacts(src, o)
  \/ \E r \in SpecRestoreInputs : RestoreFromBackup(r[1], r[2], r[3])
  \/ \E b \in {"ok", "fail"} : CreateBackup(b)

Spec == Init /\ [][Next]_vars

\* -------------------------------------------------------------- SpecEdit
\* add, update and import with the inputs that collide: names that differ
\* in case only, phones that differ in punctuation only.
EditImportSources ==
  {MissingFile, TextFile, BrokenJson, JsonFile(<<CandPhoneOnly>>),
   CsvFile(<<"name", "phone">>, <<<<S_Bo, P_one>>>>)}

NextEdit ==
  \/ \E a \in AddInputs, o \in SaveOutcomes :
          AddContact(a[1], a[2], a[3], <<>>, <<>>, o)
  \/ \E u \in UpdateInputs, o \in SaveOutcomes :
          UpdateContact(u[1], u[2], u[3], u[4], <<>>, <<>>, o)
  \/ \E src \in EditImportSources, o \in SaveOutcomes : ImportContacts(src, o)

SpecEdit == Init /\ [][NextEdit]_vars

\* ----------------------------------------------------------- SpecBackups
\* The state after construction on a later run: contacts.json holds the one
\* contact an earlier run added in second 0.
Rec0 == NewContact(S_Al, F_one, <<>>, <<>>, Other, 0)

InitBackups ==
  /\ contacts = <<Rec0>>
  /\ file = ValidFile(JsonDump(<<Rec0>>), 0)
  /\ backups = EmptyBackups
  /\ now = 0
  /\ report = Report("init", "none")
  /\ exported = MissingFile
  /\ phone_call = NoCall
  /\ pager = NoPager
  /\ running = TRUE
  /\ tasks = <<>>
  /\ todo_data = NoFile
  /\ game = [round_number |-> 0, user_score |-> 0, computer_score |-> 0,
             results |-> 0, final |-> <<>>]

\* The clock, saves that renew the file's modification time, backups and
\* their cleanup.
\* the most files a cleanup can have to delete: names 0..MaxTimeB, 5 kept
MaxToDelete == MaxTimeB + 1 - KeepBackups

NextBackups ==
  \/ \E o \in {"ok", "open_fail"} :
          UpdateContact(C_1, <<>>, <<>>, <<>>, <<>>, <<>>, o)
  \/ \E b \in {"ok", "fail"} : CreateBackup(b)
  \/ \E d \in BOOLEAN, y \in ConfirmInputs, k \in 1..(MaxToDelete + 1) :
          CleanupOldBackups(d, y, k)
  \/ Tick(MaxTimeB)

SpecBackups == InitBackups /\ [][NextBackups]_vars

\* ------------------------------------------------------------ SpecExport
\* Export and import: the list is built by add and update, written by export_contacts, emptied by delete and read back
\* by import_contacts; files written by hand are imported as well.
F_intl == validate_phone(P_intl).formatted
F_two == validate_phone(<<"5", "5", "5", "7", "6", "5", "4", "3", "2", "1">>).formatted

\* {"name": "Bo", "phone": "+1-555-123-4567"}
CandBo == [name |-> S_Bo, phone |-> F_intl]
\* {"name": "bo", "phone": "123"}
CandBoLower == [name |-> <<"b", "o">>, phone |-> P_short]
\* {"phone": "(555) 765-4321"}
CandNoName == [phone |-> F_two]

HandWrittenFiles ==
  {JsonFile(<<CandBo, CandBoLower>>), JsonFile(<<CandBo, CandNoName>>)}

NextExport ==
  \/ \E a \in SpecAddInputs : AddContact(a[1], a[2], <<>>, <<>>, <<>>, "ok")
  \/ UpdateContact(C_2, S_al, <<>>, <<>>, <<>>, <<>>, "ok")
  \/ DeleteContact(C_1, Yes, "fail", "ok")
  \/ \E f \in {C_1, C_2, C_3, C_9}, o \in {"ok", "write_fail"} :
          ExportContacts(f, o)
  \/ ImportContacts(exported, "ok")
  \/ \E src \in HandWrittenFiles : ImportContacts(src, "ok")

SpecExport == Init /\ [][NextExport]_vars

\* ----------------------------------------------------------- SpecRestore
\* Backups of different lists, taken in different seconds, and the restore
\* from one of them; it starts as SpecBackups does.
RestoreInputs ==
  {<<c, Yes, o>> : c \in {C_1, C_2}, o \in SaveOutcomes}
    \cup {<<C_1, No, "ok">>, <<C_9, Yes, "ok">>, <<C_x, Yes, "ok">>}

NextRestore ==
  \/ \E o \in {"ok", "write_fail"} :
          AddContact(S_Bo, P_intl, <<>>, <<>>, <<>>, o)
  \/ \E b \in CopyOutcomes : CreateBackup(b)
  \/ \E r \in RestoreInputs : RestoreFromBackup(r[1], r[2], r[3])
  \/ Tick(MaxTimeR)

SpecRestore == InitBackups /\ [][NextRestore]_vars

\* ------------------------------------------------------------- SpecPhone
\* One call of validate_phone on each argument.
InitPhone ==
  /\ contacts = <<>>
  /\ file = NoFile
  /\ backups = EmptyBackups
  /\ now = 0
  /\ report = Report("init", "none")
  /\ exported = MissingFile
  /\ phone_call \in {Call(p) : p \in PhoneInputs}
  /\ pager = NoPager
  /\ running = TRUE
  /\ tasks = <<>>
  /\ todo_data = NoFile
  /\ game = [round_number |-> 0, user_score |-> 0, computer_score |-> 0,
             results |-> 0, final |-> <<>>]

NextPhone == ValidatePhone \/ ValidateAgain

SpecPhone == InitPhone /\ [][NextPhone]_vars

\* -------------------------------------------------------------- SpecView
\* view_contacts on a list of 0..MaxTotal records that an earlier run saved:
\* the names are in no order and three creation seconds recur.
TwoDigits(k) == <<DigitChar((k \div 10) % 10), DigitChar(k % 10)>>

Entry(i) ==
  NewContact(<<"c">> \o TwoDigits((37 * i) % 100),
             validate_phone(<<"5", "5", "5", "0", "1", "0", "0">>
                              \o TwoDigits(i) \o <<"0">>).formatted,
             <<>>, <<>>, Other, i % 3)

InitView ==
  /\ \E total \in 0..MaxTotal :
       /\ contacts = [i \in 1..total |-> Entry(i)]
       /\ file = IF total = 0 THEN NoFile ELSE ValidFile(JsonDump(contacts), 0)
  /\ backups = EmptyBackups
  /\ now = 0
  /\ report = Report("init", "none")
  /\ exported = MissingFile
  /\ phone_call = NoCall
  /\ pager = NoPager
  /\ running = TRUE
  /\ tasks = <<>>
  /\ todo_data = NoFile
  /\ game = [round_number |-> 0, user_score |-> 0, computer_score |-> 0,
             results |-> 0, final |-> <<>>]

NextView ==
  \/ \E sortIn \in {<<>>, <<"1">>, <<"5">>} : ViewContacts(sortIn)
  \/ \E choiceIn \in {<<"n">>, <<"P">>, <<"q">>, <<>>} : PagerChoice(choiceIn)

SpecView == InitView /\ [][NextView]_vars

\* ------------------------------------------------------------- SpecDates
\* Records created in different seconds, and every handler that keeps
\* records in the list while it changes, reads or writes it.
\* {"name": "al", "phone": "(555) 765-4321", "created_date": <second 0>}
CandDated == [name |-> S_al, phone |-> F_two, created_date |-> 0]

\* number, phone, e-mail, category: a new category; a new phone followed by
\* an e-mail that fails validation.
DatesUpdateInputs ==
  {<<C_1, <<>>, <<>>, S_Bo>>, <<C_2, P_oneDashed, E_bad, <<>>>>}

DatesDeleteInputs ==
  {<<C_1, Yes, "ok">>, <<C_1, Yes, "open_fail">>, <<C_2, No, "ok">>}

NextDates ==
  \/ \E a \in SpecAddInputs : AddContact(a[1], a[2], <<>>, <<>>, <<>>, "ok")
  \/ \E u \in DatesUpdateInputs :
          UpdateContact(u[1], <<>>, u[2], u[3], <<>>, u[4], "ok")
  \/ \E d \in DatesDeleteInputs : DeleteContact(d[1], d[2], "fail", d[3])
  \/ ImportContacts(JsonFile(<<CandDated>>), "ok")
  \/ ExportContacts(C_3, "ok")
  \/ Tick(MaxTimeD)

SpecDates == Init /\ [][NextDates]_vars

\* ------------------------------------------------------------- SpecIndex
\* update_contact and delete_contact asked for contact numbers inside and
\* outside the list, on lists of full records and of records without a
\* name, with and without a backup.
C_0 == <<"0">>
C_minus1 == <<"-", "1">>
IndexInputs == {C_1, C_2, C_9, C_0, C_minus1, C_x, <<>>}

NextIndex ==
  \/ \E a \in SpecAddInputs : AddContact(a[1], a[2], <<>>, <<>>, <<>>, "ok")
  \/ ImportContacts(JsonFile(<<CandNoName>>), "ok")
  \/ CreateBackup("ok")
  \/ \E c \in IndexInputs, o \in {"ok", "write_fail"} :
          UpdateContact(c, <<>>, <<>>, <<>>, S_Bo, <<>>, o)
  \/ \E c \in IndexInputs, o \in {"ok", "write_fail"} :
          DeleteContact(c, Yes, "ok", o)

SpecIndex == Init /\ [][NextIndex]_vars

\* ------------------------------------------------------------ SpecFields
\* update_contact with every prompt answered or left blank: Enter alone,
\* blanks only, a value that passes validation, a value that fails it.  The
\* list holds Rec0 and, once imported, a record without e-mail and address.
E_ok == <<"a", "@", "b", ".", "c", "o">>

\* number, name, phone, e-mail, address, category
FieldInputs ==
  {<<C_1, S_al, P_short, <<>>, C_x, <<>>>>,
   <<C_1, S_blank, <<>>, S_blank, S_blank, S_blank>>,
   <<C_2, <<>>, <<>>, <<>>, <<>>, <<>>>>,
   <<C_2, <<>>, <<>>, E_ok, <<>>, <<>>>>,
   <<C_2, <<>>, <<>>, <<>>, C_x, <<>>>>,
   <<C_2, S_al, S_blank, <<>>, <<>>, S_Bo>>,
   <<C_2, <<>>, P_one, E_bad, <<>>, S_Bo>>,
   <<C_2, S_blank, P_one, <<>>, C_x, S_blank>>,
   <<C_2, S_al, P_one, E_ok, C_x, S_Bo>>}

NextFields ==
  \/ ImportContacts(JsonFile(<<CandBo>>), "ok")
  \/ \E x \in FieldInputs :
          UpdateContact(x[1], x[2], x[3], x[4], x[5], x[6], "ok")

SpecFields == InitBackups /\ [][NextFields]_vars

\* -------------------------------------------------------------- SpecLoad
\* load_contacts that answers the list of the last complete save for a
\* text json.load rejects.
load_contacts_salvaging(f) ==
  IF f.state = "absent" THEN <<>>
  ELSE IF f.state = "valid" THEN JsonLoad(f.text)
  ELSE <<Rec0>>

\* load_contacts: no contacts.json, the list stays empty; a complete JSON
\* text, the list is what json.load returns; a text json.load rejects, the
\* warning is printed and the list is set to [].
load_contacts(f) == IF f.state = "valid" THEN JsonLoad(f.text) ELSE <<>>

\* The state after construction on a later run: contacts.json exists, with
\* the contact of an earlier run or truncated by a save that failed.
InitLoad ==
  /\ file \in {ValidFile(JsonDump(<<Rec0>>), 0), PartialFile(0)}
  /\ contacts = load_contacts(file)
  /\ backups = EmptyBackups
  /\ now = 0
  /\ report = Report("init", IF file.state = "valid" THEN "none" ELSE "warning")
  /\ exported = MissingFile
  /\ phone_call = NoCall
  /\ pager = NoPager
  /\ running = TRUE
  /\ tasks = <<>>
  /\ todo_data = NoFile
  /\ game = [round_number |-> 0, user_score |-> 0, computer_score |-> 0,
             results |-> 0, final |-> <<>>]

\* The handlers that keep the records of the list: add, update, backup.
NextLoad ==
  \/ \E a \in SpecAddInputs, o \in SaveOutcomes :
          AddContact(a[1], a[2], <<>>, <<>>, <<>>, o)
  \/ \E u \in {<<C_1, E_ok>>, <<C_2, E_bad>>}, o \in SaveOutcomes :
          UpdateContact(u[1], <<>>, <<>>, u[2], <<>>, <<>>, o)
  \/ \E b \in CopyOutcomes : CreateBackup(b)

SpecLoad == InitLoad /\ [][NextLoad]_vars

\* --------------------------------------------------------------- SpecRun
\* The menu of run: every choice, with inputs that make the actions fail
\* (a file that does not parse, a record without a name in the list, a
\* number out of range, a save or a copy that fails), the exit choice and
\* a KeyboardInterrupt.
NextRun ==
  \/ \E a \in SpecAddInputs, o \in {"ok", "write_fail"} :
          AddContact(a[1], a[2], <<>>, <<>>, <<>>, o)
  \/ \E sortIn \in {<<>>, <<"1">>} : ViewContacts(sortIn)
  \/ \E c \in ChoiceInputs, o \in {"ok", "open_fail"} :
          UpdateContact(c, <<>>, P_short, <<>>, <<>>, <<>>, o)
  \/ \E c \in ChoiceInputs, o \in {"ok", "open_fail"} :
          DeleteContact(c, Yes, "fail", o)
  \/ \E f \in {C_2, C_9}, o \in {"ok", "write_fail"} : ExportContacts(f, o)
  \/ \E src \in {BrokenJson, JsonFile(<<CandNoName>>)} : ImportContacts(src, "ok")
  \/ \E b \in {"ok", "fail"} : CreateBackup(b)
  \/ \E c \in {C_1, C_x} : RestoreFromBackup(c, Yes, "ok")
  \/ \E d \in BOOLEAN : CleanupOldBackups(d, Yes, 1)
  \/ \E op \in {"search", "filter", "statistics"}, raised \in BOOLEAN :
          ReadOnlyAction(op, raised)
  \/ \E how \in {"exit", "interrupt"}, b \in {"ok", "fail"} : EndRun(how, b)

SpecRun == Init /\ [][NextRun]_vars

\* -------------------------------------------------------------- SpecTodo
\* The to-do list: tasks added with texts that recur and a text that reads
\* as a number, and deleted from any row.
NextTodo ==
  \/ \E textIn \in {C_x, <<"x", " ">>, S_Bo, <<"4", "2">>, S_blank},
        o \in {"ok", "write_fail"} : AddTask(textIn, "Medium", o)
  \/ \E sel \in 0..MaxTasks, confirm \in BOOLEAN : DeleteTask(sel, confirm, "ok")

SpecTodo == Init /\ [][NextTodo]_vars

\* -------------------------------------------------------------- SpecGame
\* A game of up to MaxRounds rounds, ended at either prompt.
SpecGame == Init /\ [][MainLoop]_vars

\* ================================================================ claims
MutatingOps == {"add", "update", "delete", "import", "restore"}

DuplicateErrors == {"dup_name", "dup_phone"}

\* A phone is in normalized form when it is an output of validate_phone.
\* The formatting only adds characters that are not digits, so an output is
\* an output for some input exactly when validate_phone maps it to itself.
IsNormalizedPhone(p) ==
  validate_phone(p).ok /\ validate_phone(p).formatted = p

\* The name or the normalized phone typed at add_contact is that of a
\* record of the list.
IsDuplicate(cs, nameIn, phoneIn) ==
  \E i \in 1..Len(cs) :
    \/ HasKey(cs[i], "name") /\ Lower(cs[i].name) = Lower(Strip(nameIn))
    \/ /\ HasKey(cs[i], "phone")
       /\ validate_phone(Strip(phoneIn)).ok
       /\ cs[i].phone = validate_phone(Strip(phoneIn)).formatted

PassesValidation(nameIn, phoneIn, emailIn) ==
  /\ Strip(nameIn) # <<>>
  /\ validate_phone(Strip(phoneIn)).ok
  /\ validate_email(Strip(emailIn))

ValidIndex(choiceIn, cs) ==
  ParseInt(choiceIn).parsed
    /\ 1 <= ParseInt(choiceIn).value /\ ParseInt(choiceIn).value <= Len(cs)

\* C1: in every reachable state no two records of the list have names that
\* are equal ignoring letter case.
C1_NoDuplicateNames ==
  \A i, j \in 1..Len(contacts) :
    (i < j /\ HasKey(contacts[i], "name") /\ HasKey(contacts[j], "name"))
      => Lower(contacts[i].name) # Lower(contacts[j].name)

\* C2: in every reachable state no two records of the list have the same
\* phone string.
C2_NoDuplicatePhones ==
  \A i, j \in 1..Len(contacts) :
    (i < j /\ HasKey(contacts[i], "phone") /\ HasKey(contacts[j], "phone"))
      => contacts[i].phone # contacts[j].phone

\* C3: in every reachable state every record has a non-empty name and a
\* phone in normalized form, whichever handler put it in the list.
C3_RecordsWellFormed ==
  \A i \in 1..Len(contacts) :
    /\ HasKey(contacts[i], "name") /\ contacts[i].name # <<>>
    /\ HasKey(contacts[i], "phone") /\ IsNormalizedPhone(contacts[i].phone)

\* C4 as stated: every add_contact whose name (ignoring case) or normalized
\* phone is that of an existing record reports the duplicate error and
\* leaves the list and the file unchanged.
C4_DuplicateAddReportsDuplicate ==
  [][report'.op = "add" => \A a \in AddInputs, o \in SaveOutcomes :
       (AddContact(a[1], a[2], a[3], <<>>, <<>>, o)
          /\ IsDuplicate(contacts, a[1], a[2]))
         => (report'.msg \in DuplicateErrors
               /\ contacts' = contacts /\ file' = file)]_vars

\* C4 amended: an add_contact whose inputs pass validation and whose name
\* (ignoring case) or normalized phone is that of an existing record leaves
\* the list and the file unchanged and reports the duplicate error, or the
\* generic error when a record of the list lacks the name or phone key.
C4_ValidDuplicateAddRejected ==
  [][report'.op = "add" => \A a \in AddInputs, o \in SaveOutcomes :
       (AddContact(a[1], a[2], a[3], <<>>, <<>>, o)
          /\ PassesValidation(a[1], a[2], a[3])
          /\ IsDuplicate(contacts, a[1], a[2]))
         => /\ contacts' = contacts /\ file' = file
            /\ \/ report'.msg \in DuplicateErrors
               \/ report'.msg = "exception" /\ ViewRaises(contacts)]_vars

C4_Witness ==
  report.op = "add" /\ report.msg \in DuplicateErrors /\ contacts # <<>>

\* C5: a confirmed delete of a valid index whose save fails leaves the list
\* as it was before the delete, in values and in order.
C5_DeleteRollback ==
  [][report'.op = "delete" => \A d \in SpecDeleteInputs :
       (/\ ValidIndex(d[1], contacts) /\ d[2] = Yes /\ d[4] # "ok"
        /\ DeleteContact(d[1], d[2], d[3], d[4]))
         => contacts' = contacts]_vars

C5_Witness ==
  report.op = "delete" /\ report.msg = "save_error" /\ Len(contacts) = 2

\* C6: whenever delete_contact has removed a record, create_backup has
\* made a snapshot at that delete and the snapshot exists.
C6_BackupBeforeDelete ==
  (report.op = "delete" /\ report.msg = "success")
    => (report.made /\ now \in DOMAIN backups)

\* C7: when update_contact is aborted by a phone or an e-mail that fails
\* validation, the list is as it was before the update.
C7_AbortedUpdateChangesNothing ==
  [][(report'.op = "update" /\ report'.msg \in {"phone_error", "email_error"})
       => contacts' = contacts]_vars

\* C8: whenever add, update, delete, import or restore has reported
\* success, the backing file is a complete JSON text whose content is the
\* list in memory.
C8_SuccessMeansPersisted ==
  (report.op \in MutatingOps /\ report.msg = "success")
    => (file.state = "valid" /\ JsonLoad(file.text) = contacts)

C8_Witness ==
  report.op = "restore" /\ report.msg = "success" /\ contacts # <<>>

\* C9: cleanup_old_backups never leaves fewer backups than min(existing, 5)
\* and never deletes a backup newer than one it keeps, also when an
\* os.remove fails partway.
C9_CleanupKeepsNewest ==
  [][report'.op = "cleanup"
       => /\ Cardinality(DOMAIN backups')
               >= Min(Cardinality(DOMAIN backups), KeepBackups)
          /\ \A d \in DOMAIN backups \ DOMAIN backups', k \in DOMAIN backups' :
               backups[d].mtime <= backups[k].mtime]_vars

\* C10: cleanup_old_backups deletes nothing when at most 5 backups exist or
\* the answer is not yes; a confirmed cleanup of more than 5 backups in
\* which no os.remove fails leaves exactly 5 backups, each unchanged and
\* each at least as new as every backup deleted.
C10_CleanupResult ==
  [][report'.op = "cleanup" =>
     \A d \in BOOLEAN, y \in ConfirmInputs, k \in 1..(MaxToDelete + 1) :
       CleanupOldBackups(d, y, k)
         => /\ (Cardinality(DOMAIN backups) <= KeepBackups \/ y # Yes)
                 => backups' = backups
            /\ (/\ Cardinality(DOMAIN backups) > KeepBackups
                /\ y = Yes
                /\ k > Cardinality(DOMAIN backups) - KeepBackups)
                 => /\ Cardinality(DOMAIN backups') = KeepBackups
                    /\ \A n \in DOMAIN backups' :
                         n \in DOMAIN backups /\ backups'[n] = backups[n]
                    /\ \A n \in DOMAIN backups',
                          m \in DOMAIN backups \ DOMAIN backups' :
                         backups[n].mtime >= backups[m].mtime]_vars

C10_Witness ==
  /\ report.op = "cleanup" /\ report.msg = "success"
  /\ Cardinality(DOMAIN backups) = KeepBackups
  /\ \E n, m \in DOMAIN backups : backups[n].mtime # backups[m].mtime

\* C11: no step changes the content of a backup file that exists before and
\* after it; a backup is written once, by the create_backup that made it.
C11_BackupsNeverRewritten ==
  [][\A n \in DOMAIN backups \cap DOMAIN backups' :
       backups'[n].state = backups[n].state
         /\ backups'[n].text = backups[n].text]_vars

\* C12: a successful JSON export writes the list as it is, and importing a
\* JSON export into the empty list gives the exported list back, field for
\* field and in order, with every record counted as imported, none skipped.
C12_JsonRoundTrip ==
  [][/\ (report'.op = "export" /\ report'.msg = "success"
           /\ exported'.kind = "json")
          => (exported'.state = "valid" /\ JsonLoad(exported'.text) = contacts)
     /\ (/\ report'.op = "import"
         /\ contacts = <<>>
         /\ exported.kind = "json" /\ exported.state = "valid"
         /\ ImportContacts(exported, "ok"))
          => /\ contacts' = JsonLoad(exported.text)
             /\ report'.imported = Len(exported.text)
             /\ report'.skipped = 0]_vars

\* What C13 says an import does.  A candidate matches a record when both
\* have a name and the names are equal ignoring case, or both have a phone
\* and the phones are the same string.
ImportMatches(rec, cand) ==
  \/ HasKey(rec, "name") /\ HasKey(cand, "name")
       /\ Lower(rec.name) = Lower(cand.name)
  \/ HasKey(rec, "phone") /\ HasKey(cand, "phone") /\ rec.phone = cand.phone

RECURSIVE ImportExpected(_, _, _, _)
ImportExpected(acc, cands, k, t) ==
  IF k > Len(cands) THEN acc
  ELSE IF \E i \in 1..Len(acc.contacts) :
            ImportMatches(acc.contacts[i], cands[k])
    THEN ImportExpected([acc EXCEPT !.skipped = @ + 1], cands, k + 1, t)
  ELSE ImportExpected([acc EXCEPT
                         !.contacts = Append(@, WithDefaults(cands[k], t)),
                         !.imported = @ + 1],
                      cands, k + 1, t)

Candidates(src) ==
  IF src.kind = "json" THEN JsonLoad(src.text)
  ELSE CsvRead(src.header, src.rows)

Readable(src) ==
  src.kind = "csv" \/ (src.kind = "json" /\ src.state = "valid")

\* C13: an import of a readable file whose save succeeds skips a candidate
\* exactly when it matches a record of the list as it is when the candidate
\* is processed and appends every other candidate with its defaults; it
\* reports the two counts, which add up to the number of candidates, and the
\* list grows by the imported count.
C13_ImportSkipsExactlyDuplicates ==
  [][report'.op = "import" => \A src \in HandWrittenFiles \cup {exported} :
       (Readable(src) /\ ImportContacts(src, "ok"))
         => LET e == ImportExpected([contacts |-> contacts, imported |-> 0,
                                     skipped |-> 0],
                                    Candidates(src), 1, now)
            IN /\ contacts' = e.contacts
               /\ report'.msg = "success"
               /\ report'.imported = e.imported
               /\ report'.skipped = e.skipped
               /\ report'.imported + report'.skipped = Len(Candidates(src))
               /\ Len(contacts') = Len(contacts) + report'.imported]_vars

\* The backup listed at position i of the restore menu: the one with i - 1
\* newer names before it.
ListedBackup(bk, i) ==
  CHOOSE n \in DOMAIN bk : Cardinality({m \in DOMAIN bk : m > n}) = i - 1

ValidBackupChoice(choiceIn, bk) ==
  ParseInt(choiceIn).parsed
    /\ 1 <= ParseInt(choiceIn).value
    /\ ParseInt(choiceIn).value <= Cardinality(DOMAIN bk)

DigitCount(p) == Cardinality({j \in 1..Len(p) : p[j] \in Digits})

NthDigit(p, i) ==
  p[CHOOSE j \in 1..Len(p) :
      p[j] \in Digits /\ Cardinality({k \in 1..j : p[k] \in Digits}) = i]

DigitsFrom(p, a, b) == [i \in 1..(b - a + 1) |-> NthDigit(p, a + i - 1)]

\* C15: validate_phone returns an error and no formatted phone when the
\* argument has fewer than 10 or more than 15 digits, and a formatted phone
\* and no error when it has 10 to 15 digits.
C15_PhoneLengthRule ==
  phone_call.returned
    => LET n == DigitCount(phone_call.phone)
       IN /\ (n < 10 \/ n > 15)
               => (phone_call.error /\ phone_call.formatted = <<>>)
          /\ (10 <= n /\ n <= 15)
               => (~phone_call.error /\ phone_call.formatted # <<>>)

\* A rejected argument of 16 digits and punctuation.
C15_Witness ==
  /\ phone_call.returned /\ phone_call.error
  /\ DigitCount(phone_call.phone) = 16
  /\ Len(phone_call.phone) > 16

\* C16: for an argument with exactly 10 digits d1..d10, whatever lies
\* between them, validate_phone returns "(d1d2d3) d4d5d6-d7d8d9d10".
C16_TenDigitFormat ==
  (phone_call.returned /\ DigitCount(phone_call.phone) = 10)
    => phone_call.formatted =
         <<"(">> \o DigitsFrom(phone_call.phone, 1, 3) \o <<")", " ">>
           \o DigitsFrom(phone_call.phone, 4, 6) \o <<"-">>
           \o DigitsFrom(phone_call.phone, 7, 10)

\* An accepted argument of 10 digits with other characters among them.
C16_Witness ==
  /\ phone_call.returned /\ ~phone_call.error
  /\ DigitCount(phone_call.phone) = 10
  /\ \E j \in 2..(Len(phone_call.phone) - 1) : phone_call.phone[j] \notin Digits

\* C17: for an argument with n digits, 11 <= n <= 15, validate_phone
\* returns "+P-AAA-BBB-CCCC": P the first n - 10 digits, then the last ten
\* split 3-3-4; the digits of the result are the digits of the argument.
C17_InternationalFormat ==
  LET p == phone_call.phone
      n == DigitCount(p)
  IN (phone_call.returned /\ 11 <= n /\ n <= 15)
       => /\ phone_call.formatted =
               <<"+">> \o DigitsFrom(p, 1, n - 10) \o <<"-">>
                 \o DigitsFrom(p, n - 9, n - 7) \o <<"-">>
                 \o DigitsFrom(p, n - 6, n - 4) \o <<"-">>
                 \o DigitsFrom(p, n - 3, n)
          /\ DigitCount(phone_call.formatted) = n
          /\ \A i \in 1..n : NthDigit(phone_call.formatted, i) = NthDigit(p, i)

\* An accepted argument of 13 digits: a country code of three.
C17_Witness ==
  /\ phone_call.returned /\ ~phone_call.error
  /\ DigitCount(phone_call.phone) = 13
  /\ Len(phone_call.formatted) = 17

\* ceil(total / 10): the least number of pages of 10 that hold total rows
CeilPages(total) ==
  CHOOSE p \in 0..total : p * 10 >= total /\ \A q \in 0..(p - 1) : q * 10 < total

\* C18: while view_contacts pages through a list of more than 10 records,
\* the number of pages is ceil(total / 10) and the page on the screen, page
\* k, shows exactly the records at positions (k-1)*10+1 .. min(k*10, total)
\* of the list in order, numbered by position: 10 records on every page but
\* the last, 1 to 10 on the last.
C18_Pagination ==
  pager.state = "paging"
    => LET total == Len(pager.list)
           k == pager.current_page
           first == (k - 1) * 10 + 1
           last == Min(k * 10, total)
       IN /\ total > 10
          /\ pager.total_pages = CeilPages(total)
          /\ 1 <= k /\ k <= pager.total_pages
          /\ Len(pager.shown) = last - first + 1
          /\ \A j \in 1..Len(pager.shown) :
               pager.shown[j] = <<first + j - 1, pager.list[first + j - 1]>>
          /\ k < pager.total_pages => Len(pager.shown) = 10
          /\ k = pager.total_pages
               => (1 <= Len(pager.shown) /\ Len(pager.shown) <= 10)

\* 23 records: the third page of three, with 3 records on it.
C18_Witness ==
  /\ pager.state = "paging"
  /\ Len(pager.list) = 23
  /\ pager.total_pages = 3 /\ pager.current_page = 3
  /\ Len(pager.shown) = 3

\* The creation times of a list, in list order (none for a record that has
\* no created_date).
CreatedDates(cs) ==
  [i \in 1..Len(cs) |-> IF HasKey(cs[i], "created_date")
                          THEN <<cs[i].created_date>> ELSE <<>>]

\* C19: add, update (saved or aborted), import and export keep every record
\* of the list at its place with its created_date; a delete keeps the
\* created_date of every record but the one it removes, and a delete that is
\* rolled back or refused keeps them all.
C19_CreatedDateNeverChanges ==
  [][/\ report'.op \in {"add", "update", "import", "export"}
          => /\ Len(contacts') >= Len(contacts)
             /\ SubSeq(CreatedDates(contacts'), 1, Len(contacts))
                  = CreatedDates(contacts)
     /\ report'.op = "delete"
          => IF report'.msg = "success"
               THEN \E k \in 1..Len(contacts) :
                      CreatedDates(contacts')
                        = CreatedDates(RemoveAt(contacts, k))
               ELSE CreatedDates(contacts') = CreatedDates(contacts)]_vars

\* An update aborted at the e-mail has changed the phone of a record that
\* was created one second after the record before it.
C19_Witness ==
  /\ report.op = "update" /\ report.msg = "email_error"
  /\ Len(contacts) = 2
  /\ contacts[2].phone = F_one
  /\ contacts[1].created_date = 0 /\ contacts[2].created_date = 1

\* The text typed is the number the list view prints for one of the records.
Numeral(k) == IF k < 10 THEN <<DigitChar(k)>> ELSE TwoDigits(k)

NamesRecord(choiceIn, cs) == \E k \in 1..Len(cs) : Strip(choiceIn) = Numeral(k)

IndexErrors == {"no_contacts", "value_error", "invalid_index"}

\* C20: update_contact and delete_contact given a text that is not the
\* number of a record (out of range, zero, negative, not a number, empty)
\* report an error and leave the list, the backing file and the backups as
\* they were.
C20_InvalidIndexChangesNothing ==
  [][/\ report'.op = "update"
          => \A c \in IndexInputs, o \in {"ok", "write_fail"} :
               (/\ ~NamesRecord(c, contacts)
                /\ UpdateContact(c, <<>>, <<>>, <<>>, S_Bo, <<>>, o))
                 => /\ \/ report'.msg \in IndexErrors
                       \/ report'.msg = "exception" /\ ViewRaises(contacts)
                    /\ contacts' = contacts /\ file' = file
                    /\ backups' = backups
     /\ report'.op = "delete"
          => \A c \in IndexInputs, o \in {"ok", "write_fail"} :
               (/\ ~NamesRecord(c, contacts)
                /\ DeleteContact(c, Yes, "ok", o))
                 => /\ \/ report'.msg \in IndexErrors
                       \/ report'.msg = "exception" /\ ViewRaises(contacts)
                    /\ contacts' = contacts /\ file' = file
                    /\ backups' = backups]_vars

\* A delete refused for its number, on a list of two with a backup on disk.
C20_Witness ==
  /\ report.op = "delete" /\ report.msg \in {"invalid_index", "value_error"}
  /\ Len(contacts) = 2
  /\ DOMAIN backups # {}

\* A text of blanks only, the empty text included.
IsBlank(s) == \A j \in 1..Len(s) : s[j] = " "

\* The value of a key of a record, if the record has the key.
FieldOf(c, k) == IF HasKey(c, k) THEN <<c[k]>> ELSE <<>>

UpdatePrompts == <<"name", "phone", "email", "address", "category">>

\* C21: update_contact leaves every other record as it was and, in the
\* record it updates, every field whose prompt was answered with a blank
\* input, whatever was typed at the other prompts and whether the update is
\* saved or aborted; a key the record lacks stays absent.
C21_BlankKeepsField ==
  [][report'.op = "update" => \A x \in FieldInputs :
       UpdateContact(x[1], x[2], x[3], x[4], x[5], x[6], "ok")
         => /\ Len(contacts') = Len(contacts)
            /\ \A i \in 1..Len(contacts), k \in 1..Len(UpdatePrompts) :
                 (i # ParseInt(x[1]).value \/ IsBlank(x[k + 1]))
                   => FieldOf(contacts'[i], UpdatePrompts[k])
                        = FieldOf(contacts[i], UpdatePrompts[k])]_vars

\* A saved update that changed the name and the category of the imported
\* record and typed blanks at the phone prompt: the phone is as it was and
\* the record still has no address.
C21_Witness ==
  /\ report.op = "update" /\ report.msg = "success"
  /\ Len(contacts) = 2
  /\ contacts[2].name = S_al /\ contacts[2].category = S_Bo
  /\ contacts[2].phone = F_intl
  /\ ~HasKey(contacts[2], "address")

\* C22: create_backup changes neither the list nor the backing file, and
\* when the backing file does not exist or the copy fails it returns no
\* path, reports the error and leaves the backup directory with the files
\* it had.
C22_FailedBackupAddsNothing ==
  [][report'.op = "backup"
       => /\ contacts' = contacts /\ file' = file
          /\ (file.state = "absent" \/ ~report'.made)
               => /\ ~report'.made /\ report'.msg = "error"
                  /\ DOMAIN backups' = DOMAIN backups]_vars

\* C24: an add_contact that passes validation and the duplicate check and
\* whose save fails leaves the list with the new record appended at its end,
\* reports the warning instead of success, and leaves the backing file with
\* the content it had.
C24_FailedSaveKeepsAppend ==
  [][report'.op = "add" =>
     \A a \in SpecAddInputs, o \in SaveOutcomes \ {"ok"} :
       (/\ PassesValidation(a[1], a[2], <<>>)
        /\ ~IsDuplicate(contacts, a[1], a[2])
        /\ AddContact(a[1], a[2], <<>>, <<>>, <<>>, o))
         => /\ Len(contacts') = Len(contacts) + 1
            /\ SubSeq(contacts', 1, Len(contacts)) = contacts
            /\ contacts'[Len(contacts')].name = Strip(a[1])
            /\ report'.msg = "warning"
            /\ file' = file]_vars

\* What a handler prints after it has called save_contacts.
SaveAttempted == {"success", "warning", "save_error"}

\* C25: every step of add, update, delete, import or restore that changes
\* the list has called save_contacts before it returns to the menu.
C25_ChangeImpliesSave ==
  [][contacts' # contacts
       => (report'.op \in MutatingOps /\ report'.msg \in SaveAttempted)]_vars

\* A KeyError is possible while candidate cand is compared with the list
\* cs: the list is not empty and the candidate or a record lacks a name or
\* a phone.
CanRaise(cs, cand) ==
  /\ cs # <<>>
  /\ \/ ~HasKey(cand, "name") \/ ~HasKey(cand, "phone")
     \/ ViewRaises(cs)

\* C26: an import of a readable file that raises at a candidate k leaves the
\* list as the candidates before k made it (every one of them that matched
\* no record appended, with its defaults), leaves the backing file as it
\* was (no save) and reports the error without the two counts.
C26_ImportNotAtomic ==
  [][(report'.op = "import" /\ report'.msg = "exception") =>
     \A src \in HandWrittenFiles \cup {exported} :
       (Readable(src) /\ ImportContacts(src, "ok"))
         => /\ \E k \in 1..Len(Candidates(src)) :
                 LET e == ImportExpected([contacts |-> contacts,
                                          imported |-> 0, skipped |-> 0],
                                         SubSeq(Candidates(src), 1, k - 1),
                                         1, now)
                 IN /\ contacts' = e.contacts
                    /\ CanRaise(e.contacts, Candidates(src)[k])
            /\ file' = file
            /\ report'.imported = 0 /\ report'.skipped = 0]_vars

\* An import into the empty list raised at its second candidate: the first
\* is in the list and nothing was written.
C26_Witness ==
  /\ report.op = "import" /\ report.msg = "exception"
  /\ Len(contacts) = 1 /\ contacts[1].name = S_Bo
  /\ file.state = "absent"

\* The digits of a text, in order.
DigitsOf(p) == DigitsFrom(p, 1, DigitCount(p))

\* C27: validate_phone returns its own output unchanged, returns the same
\* string for two arguments with the same digits in the same order, and
\* different strings for two accepted arguments whose digits differ.
C27_PhoneFormatCanonical ==
  (phone_call.returned /\ ~phone_call.error)
    => /\ (\E q \in PhoneInputs : validate_phone(q).ok
                                   /\ validate_phone(q).formatted = phone_call.phone)
            => phone_call.formatted = phone_call.phone
       /\ \A q \in PhoneInputs :
            validate_phone(q).ok
              => (DigitsOf(q) = DigitsOf(phone_call.phone)
                    <=> validate_phone(q).formatted = phone_call.formatted)

\* The second call, on the output of a first call with 12 digits.
C27_Witness ==
  /\ phone_call.returned /\ ~phone_call.error
  /\ phone_call.formatted = phone_call.phone
  /\ DigitCount(phone_call.phone) = 12
  /\ phone_call.phone \notin PhoneInputs

\* C28: when contacts.json exists at startup and cannot be loaded the list
\* starts empty and no backup exists; a successful add on top of a
\* contacts.json that cannot be loaded rewrites it as the list in memory,
\* nothing else, and makes no backup.
C28_UnreadableFileOverwritten ==
  /\ []((report.op = "init" /\ file.state = "partial")
          => (contacts = <<>> /\ DOMAIN backups = {}))
  /\ [][(file.state = "partial" /\ report'.op = "add"
           /\ report'.msg = "success")
          => /\ file'.state = "valid"
             /\ JsonLoad(file'.text) = contacts'
             /\ backups' = backups]_vars

\* The first add after a start on a truncated contacts.json has been saved:
\* the file holds the new record alone and there is no backup.
C28_Witness ==
  /\ report.op = "add" /\ report.msg = "success"
  /\ Len(contacts) = 1 /\ contacts[1].name = S_Bo
  /\ file.state = "valid" /\ Len(file.text) = 1
  /\ DOMAIN backups = {}

\* The two steps of run that break out of its loop.
LoopEnds == {"exit", "interrupt"}

\* C23: after every menu action, whatever it reported and whether or not
\* an exception left it, run is back at the menu and takes a next choice;
\* the loop ends at the exit choice and at a keyboard interrupt, nowhere
\* else.
C23_ErrorsStayInTheLoop ==
  /\ [](report.op \notin LoopEnds => (running /\ ENABLED NextRun))
  /\ [][(running /\ ~running') => report'.op \in LoopEnds]_vars

\* update_contact on a list with a record without a name: the KeyError of
\* view_contacts leaves update_contact, and the menu is back.
C23_Witness ==
  /\ report.op = "update" /\ report.msg = "exception"
  /\ contacts # <<>>
  /\ running

\* C29: a confirmed delete_task with row sel selected leaves the task list
\* as it was with the task of that row taken out: every other task, those
\* with the same text included, stays, in order.
C29_DeleteRemovesSelectedOnly ==
  [][\A sel \in 1..Len(tasks) :
       DeleteTask(sel, TRUE, "ok") => tasks' = RemoveAt(tasks, sel)]_vars

\* C30: once the game loop has ended, at the choice prompt or at the
\* play-again prompt, the statistics show_final_results prints give as the
\* rounds played the number of rounds that had a result, the two scores
\* together are no more than that number, and the win rate lies between
\* 0% and 100%.
C30_FinalStatistics ==
  (game.final # <<>> /\ game.final[1].statistics)
    => LET shown == game.final[1]
       IN /\ shown.rounds_played = game.results
          /\ game.user_score + game.computer_score <= shown.rounds_played
          /\ 0 <= shown.win_rate[1]
          /\ shown.win_rate[1] <= 100 * shown.win_rate[2]

====
